---- MODULE Spec2Model ----
(***************************************************************************)
(* Network constants for bitcoin-like networks.                            *)
(*                                                                         *)
(*   closed registry : src/src/lib.rs      (enum Networks, ALL_NETWORKS,   *)
(*                                          impl NetworkConstants)         *)
(*   open registry   : src/src/networks.rs (marker structs behind          *)
(*                                          Box<NetworkConstants>)         *)
(*                                                                         *)
(* Value encodings.  A u32 is the pair <<high 16 bits, low 16 bits>> and a *)
(* u64 the 4-tuple of its 16-bit groups, most significant first, so that   *)
(* every literal of the source keeps all of its bits.  A &str is a string. *)
(***************************************************************************)
EXTENDS Integers, Sequences, FiniteSets, TLC

VARIABLES
    call, arg, ret,        \* closed registry: the caller's last call
    handles, boxes, obs,   \* open registry: handles, live boxes, last call
    all_networks,          \* the static slice ALL_NETWORKS in memory
    pc, op, cursor, result \* concurrent callers of the closed registry

closedVars == <<call, arg, ret>>

openVars == <<handles, boxes, obs>>

concVars == <<all_networks, pc, op, cursor, result>>

vars == <<closedVars, openVars, concVars>>

(* number of Box<NetworkConstants> handles a run creates *)
MaxHandles == 3

(* number of threads calling into the closed registry at the same time *)
NumCallers == 2

---------------------------------------------------------------------------
(* Values                                                                  *)

U32(hi, lo) == <<hi, lo>>

U64(a, b, c, d) == <<a, b, c, d>>

Ok(v) == [tag |-> "Ok", val |-> v]

Err(e) == [tag |-> "Err", val |-> e]

UnknownNetwork == "UnknownNetwork"

Some(v) == [tag |-> "Some", val |-> v]

None == [tag |-> "None", val |-> "None"]

Value(v) == [tag |-> "Value", val |-> v]

Panic(m) == [tag |-> "Panic", val |-> m]

Emit(v) == [tag |-> "Emit", val |-> v]

Range(s) == {s[i] : i \in 1..Len(s)}

---------------------------------------------------------------------------
(* Closed registry: src/src/lib.rs                                         *)

Networks ==
    {"Bitcoin", "Testnet", "Regtest", "Litecoin", "LitecoinTestnet",
     "Vertcoin", "VertcoinTestnet"}

NetworkType == {"Mainnet", "Testnet", "Regtest"}

ALL_NETWORKS_forgotten ==
    <<"Bitcoin", "Testnet", "Regtest", "Litecoin", "LitecoinTestnet",
      "Vertcoin">>

ALL_NETWORKS ==
    <<"Bitcoin", "Testnet", "Regtest", "Litecoin", "LitecoinTestnet",
      "Vertcoin", "VertcoinTestnet">>

(* Iterator::find over a slice: the first element, from position i on,     *)
(* that satisfies the predicate p (a function Networks -> BOOLEAN).         *)
RECURSIVE find(_, _, _)
find(s, p, i) ==
    IF i > Len(s) THEN None
    ELSE IF p[s[i]] THEN Some(s[i])
    ELSE find(s, p, i + 1)

(* mutant: the search keeps the last match instead of stopping at the first *)
RECURSIVE rfind(_, _, _)
rfind(s, p, i) ==
    IF i < 1 THEN None
    ELSE IF p[s[i]] THEN Some(s[i])
    ELSE rfind(s, p, i - 1)

find_net_with_property_last(predicate) ==
    LET found == rfind(ALL_NETWORKS, predicate, Len(ALL_NETWORKS))
    IN  IF found.tag = "Some" THEN Ok(found.val) ELSE Err(UnknownNetwork)

(* mutant: a missing match falls back to a default network *)
find_net_with_property_default(predicate) ==
    LET found == find(ALL_NETWORKS, predicate, 1)
    IN  IF found.tag = "Some" THEN Ok(found.val) ELSE Ok("Bitcoin")

find_net_with_property(predicate) ==
    LET found == find(ALL_NETWORKS, predicate, 1)
    IN  IF found.tag = "Some" THEN Ok(found.val) ELSE Err(UnknownNetwork)

(* mutant: the litecoin arm carries the testnet prefix *)
hrp_collision(self) ==
    CASE self = "Bitcoin"         -> "bc"
      [] self = "Testnet"         -> "tb"
      [] self = "Regtest"         -> "bcrt"
      [] self = "Litecoin"        -> "tltc"
      [] self = "LitecoinTestnet" -> "tltc"
      [] self = "Vertcoin"        -> "vtc"
      [] self = "VertcoinTestnet" -> "tvtc"

hrp(self) ==
    CASE self = "Bitcoin"         -> "bc"
      [] self = "Testnet"         -> "tb"
      [] self = "Regtest"         -> "bcrt"
      [] self = "Litecoin"        -> "ltc"
      [] self = "LitecoinTestnet" -> "tltc"
      [] self = "Vertcoin"        -> "vtc"
      [] self = "VertcoinTestnet" -> "tvtc"

from_hrp(h) ==
    find_net_with_property([n \in Networks |-> hrp(n) = h])

magic(self) ==
    CASE self = "Bitcoin"         -> U32(\hD9B4, \hBEF9)
      [] self = "Testnet"         -> U32(\h0709, \h110B)
      [] self = "Regtest"         -> U32(\hDAB5, \hBFFA)
      [] self = "Litecoin"        -> U32(\hDBB6, \hC0FB)
      [] self = "LitecoinTestnet" -> U32(\hF1C8, \hD2FD)
      [] self = "Vertcoin"        -> U32(\hDAB5, \hBFFA)
      [] self = "VertcoinTestnet" -> U32(\h7472, \h6576)

from_magic(m) ==
    find_net_with_property([n \in Networks |-> magic(n) = m])

(* mutant: the testnet arm uses the prefixed name of the other networks *)
name_prefixed(self) ==
    CASE self = "Bitcoin"         -> "bitcoin"
      [] self = "Testnet"         -> "bitcoin-testnet"
      [] self = "Regtest"         -> "regtest"
      [] self = "Litecoin"        -> "litecoin"
      [] self = "LitecoinTestnet" -> "litecoin-testnet"
      [] self = "Vertcoin"        -> "vertcoin"
      [] self = "VertcoinTestnet" -> "vertcoin-testnet"

(* mutant: the vertcoin arm was copied from the litecoin one *)
name_collision(self) ==
    CASE self = "Bitcoin"         -> "bitcoin"
      [] self = "Testnet"         -> "testnet"
      [] self = "Regtest"         -> "regtest"
      [] self = "Litecoin"        -> "litecoin"
      [] self = "LitecoinTestnet" -> "litecoin-testnet"
      [] self = "Vertcoin"        -> "litecoin"
      [] self = "VertcoinTestnet" -> "vertcoin-testnet"

name(self) ==
    CASE self = "Bitcoin"         -> "bitcoin"
      [] self = "Testnet"         -> "testnet"
      [] self = "Regtest"         -> "regtest"
      [] self = "Litecoin"        -> "litecoin"
      [] self = "LitecoinTestnet" -> "litecoin-testnet"
      [] self = "Vertcoin"        -> "vertcoin"
      [] self = "VertcoinTestnet" -> "vertcoin-testnet"

from_name(s) ==
    find_net_with_property([n \in Networks |-> name(n) = s])

network_type(self) ==
    CASE self = "Bitcoin"         -> "Mainnet"
      [] self = "Testnet"         -> "Testnet"
      [] self = "Regtest"         -> "Regtest"
      [] self = "Litecoin"        -> "Mainnet"
      [] self = "LitecoinTestnet" -> "Testnet"
      [] self = "Vertcoin"        -> "Mainnet"
      [] self = "VertcoinTestnet" -> "Testnet"

ChainParams(net, b16, b34, b65, b66, thr, win, lim, spc, span, minD, noR) ==
    [network |-> net,
     bip16_time |-> b16,
     bip34_height |-> b34,
     bip65_height |-> b65,
     bip66_height |-> b66,
     rule_change_activation_threshold |-> thr,
     miner_confirmation_window |-> win,
     pow_limit |-> lim,
     pow_target_spacing |-> spc,
     pow_target_timespan |-> span,
     allow_min_difficulty_blocks |-> minD,
     no_pow_retargeting |-> noR]

Networks_Bitcoin_params ==
    ChainParams("Bitcoin", 1333238400, 227931, 388381, 363725, 1916, 2016,
                <<U64(\hffff, \hffff, \hffff, \hffff),
                  U64(\hffff, \hffff, \hffff, \hffff),
                  U64(\hffff, \hffff, \hffff, \hffff),
                  U64(\h0000, \h0000, \hffff, \hffff)>>,
                10 * 60, 14 * 24 * 60 * 60, FALSE, FALSE)

Networks_Testnet_params ==
    ChainParams("Testnet", 1333238400, 21111, 581885, 330776, 1512, 2016,
                <<U64(\hffff, \hffff, \hffff, \hffff),
                  U64(\hffff, \hffff, \hffff, \hffff),
                  U64(\hffff, \hffff, \hffff, \hffff),
                  U64(\h0000, \h0000, \hffff, \hffff)>>,
                10 * 60, 14 * 24 * 60 * 60, TRUE, FALSE)

Networks_Regtest_params ==
    ChainParams("Regtest", 1333238400, 100000000, 1351, 1251, 108, 144,
                <<U64(\hffff, \hffff, \hffff, \hffff),
                  U64(\hffff, \hffff, \hffff, \hffff),
                  U64(\hffff, \hffff, \hffff, \hffff),
                  U64(\h7fff, \hffff, \hffff, \hffff)>>,
                10 * 60, 14 * 24 * 60 * 60, TRUE, TRUE)

(* mutant: the catch-all arm hands out the mainnet bundle *)
chain_params_fallback(self) ==
    CASE self = "Bitcoin" -> Value(Networks_Bitcoin_params)
      [] self = "Testnet" -> Value(Networks_Testnet_params)
      [] self = "Regtest" -> Value(Networks_Regtest_params)
      [] OTHER            -> Value(Networks_Bitcoin_params)

(* unimplemented!() panics with the message "not yet implemented" *)
chain_params(self) ==
    CASE self = "Bitcoin" -> Value(Networks_Bitcoin_params)
      [] self = "Testnet" -> Value(Networks_Testnet_params)
      [] self = "Regtest" -> Value(Networks_Regtest_params)
      [] OTHER            -> Panic("not yet implemented")

(* serde::Serialize: the serializer is handed self.name() as a str *)
serialize(self) == Emit(name(self))

(* mutant: the visitor looks the string up as a human-readable part *)
deserialize_by_hrp(s) ==
    LET r == from_hrp(s)
    IN  IF r.tag = "Ok" THEN Ok(r.val) ELSE Err("syntax(Network)")

(* serde::Deserialize: Visitor::visit_str, reached from visit_string too *)
deserialize(s) ==
    LET r == from_name(s)
    IN  IF r.tag = "Ok" THEN Ok(r.val) ELSE Err("syntax(Network)")

---------------------------------------------------------------------------
(* Open registry: src/src/networks.rs                                      *)
(* A concrete network is a field-less struct; `self` below is the name of  *)
(* the concrete type a Box<NetworkConstants> dispatches to.                *)

Markers == {"Bitcoin", "BitcoinTestnet", "BitcoinRegtest"}

open_hrp(self) ==
    CASE self = "Bitcoin"        -> "bc"
      [] self = "BitcoinTestnet" -> "tb"
      [] self = "BitcoinRegtest" -> "bcrt"

p2pk_prefix(self) ==
    CASE self = "Bitcoin"        -> 0
      [] self = "BitcoinTestnet" -> 111
      [] self = "BitcoinRegtest" -> 111

p2pkh_prefix(self) ==
    CASE self = "Bitcoin"        -> 0
      [] self = "BitcoinTestnet" -> 111
      [] self = "BitcoinRegtest" -> 111

p2sh_prefix(self) ==
    CASE self = "Bitcoin"        -> 5
      [] self = "BitcoinTestnet" -> 196
      [] self = "BitcoinRegtest" -> 196

xpub_prefix(self) ==
    CASE self = "Bitcoin"        -> <<\h04, \h88, \hB2, \h1E>>
      [] self = "BitcoinTestnet" -> <<\h04, \h35, \h87, \hCF>>
      [] self = "BitcoinRegtest" -> <<\h04, \h35, \h87, \hCF>>

xpriv_prefix(self) ==
    CASE self = "Bitcoin"        -> <<\h04, \h88, \hAD, \hE4>>
      [] self = "BitcoinTestnet" -> <<\h04, \h35, \h83, \h94>>
      [] self = "BitcoinRegtest" -> <<\h04, \h35, \h83, \h94>>

wif_prefix(self) ==
    CASE self = "Bitcoin"        -> 128
      [] self = "BitcoinTestnet" -> 239
      [] self = "BitcoinRegtest" -> 239

open_magic(self) ==
    CASE self = "Bitcoin"        -> U32(\hD9B4, \hBEF9)
      [] self = "BitcoinTestnet" -> U32(\h0709, \h110B)
      [] self = "BitcoinRegtest" -> U32(\hDAB5, \hBFFA)

open_name(self) ==
    CASE self = "Bitcoin"        -> "bitcoin"
      [] self = "BitcoinTestnet" -> "bitcoin-testnet"
      [] self = "BitcoinRegtest" -> "bitcoin-regtest"

open_network_type(self) ==
    CASE self = "Bitcoin"        -> "Mainnet"
      [] self = "BitcoinTestnet" -> "Testnet"
      [] self = "BitcoinRegtest" -> "Regtest"

OpenChainParams(b16, b34, b65, b66, thr, win, lim, spc, span, minD, noR) ==
    [bip16_time |-> b16,
     bip34_height |-> b34,
     bip65_height |-> b65,
     bip66_height |-> b66,
     rule_change_activation_threshold |-> thr,
     miner_confirmation_window |-> win,
     pow_limit |-> lim,
     pow_target_spacing |-> spc,
     pow_target_timespan |-> span,
     allow_min_difficulty_blocks |-> minD,
     no_pow_retargeting |-> noR]

Bitcoin_chain_params ==
    OpenChainParams(1333238400, 227931, 388381, 363725, 1916, 2016,
                <<U64(\hffff, \hffff, \hffff, \hffff),
                  U64(\hffff, \hffff, \hffff, \hffff),
                  U64(\hffff, \hffff, \hffff, \hffff),
                  U64(\h0000, \h0000, \hffff, \hffff)>>,
                10 * 60, 14 * 24 * 60 * 60, FALSE, FALSE)

BitcoinTestnet_chain_params ==
    OpenChainParams(1333238400, 21111, 581885, 330776, 1512, 2016,
                <<U64(\hffff, \hffff, \hffff, \hffff),
                  U64(\hffff, \hffff, \hffff, \hffff),
                  U64(\hffff, \hffff, \hffff, \hffff),
                  U64(\h0000, \h0000, \hffff, \hffff)>>,
                10 * 60, 14 * 24 * 60 * 60, TRUE, FALSE)

(* mutant: the regtest bundle keeps the retargeting flag of the testnet one *)
BitcoinRegtest_chain_params_retargeting ==
    OpenChainParams(1333238400, 100000000, 1351, 1251, 108, 144,
                <<U64(\hffff, \hffff, \hffff, \hffff),
                  U64(\hffff, \hffff, \hffff, \hffff),
                  U64(\hffff, \hffff, \hffff, \hffff),
                  U64(\h7fff, \hffff, \hffff, \hffff)>>,
                10 * 60, 14 * 24 * 60 * 60, TRUE, FALSE)

BitcoinRegtest_chain_params ==
    OpenChainParams(1333238400, 100000000, 1351, 1251, 108, 144,
                <<U64(\hffff, \hffff, \hffff, \hffff),
                  U64(\hffff, \hffff, \hffff, \hffff),
                  U64(\hffff, \hffff, \hffff, \hffff),
                  U64(\h7fff, \hffff, \hffff, \hffff)>>,
                10 * 60, 14 * 24 * 60 * 60, TRUE, TRUE)

(* mutant: the testnet impl hands out the mainnet bundle *)
open_chain_params_copied(self) ==
    CASE self = "Bitcoin"        -> Bitcoin_chain_params
      [] self = "BitcoinTestnet" -> Bitcoin_chain_params
      [] self = "BitcoinRegtest" -> BitcoinRegtest_chain_params

open_chain_params(self) ==
    CASE self = "Bitcoin"        -> Bitcoin_chain_params
      [] self = "BitcoinTestnet" -> BitcoinTestnet_chain_params
      [] self = "BitcoinRegtest" -> BitcoinRegtest_chain_params

Bitcoin_genesis_hex ==
    <<
      "0", "0", "0", "0", "0", "0", "0", "0", "0", "0", "1", "9", "d", "6", "6", "8",
      "9", "c", "0", "8", "5", "a", "e", "1", "6", "5", "8", "3", "1", "e", "9", "3",
      "4", "f", "f", "7", "6", "3", "a", "e", "4", "6", "a", "2", "a", "6", "c", "1",
      "7", "2", "b", "3", "f", "1", "b", "6", "0", "a", "8", "c", "e", "2", "6", "f" >>

BitcoinTestnet_genesis_hex ==
    <<
      "0", "0", "0", "0", "0", "0", "0", "0", "0", "9", "3", "3", "e", "a", "0", "1",
      "a", "d", "0", "e", "e", "9", "8", "4", "2", "0", "9", "7", "7", "9", "b", "a",
      "a", "e", "c", "3", "c", "e", "d", "9", "0", "f", "a", "3", "f", "4", "0", "8",
      "7", "1", "9", "5", "2", "6", "f", "8", "d", "7", "7", "f", "4", "9", "4", "3" >>

BitcoinRegtest_genesis_hex ==
    <<
      "0", "f", "9", "1", "8", "8", "f", "1", "3", "c", "b", "7", "b", "2", "c", "7",
      "1", "f", "2", "a", "3", "3", "5", "e", "3", "a", "4", "f", "c", "3", "2", "8",
      "b", "f", "5", "b", "e", "b", "4", "3", "6", "0", "1", "2", "a", "f", "c", "a",
      "5", "9", "0", "b", "1", "a", "1", "1", "4", "6", "6", "e", "2", "2", "0", "6" >>

(* value of a hex digit; upper-case digits are accepted as well *)
HexVal ==
    [c \in {"0", "1", "2", "3", "4", "5", "6", "7", "8", "9",
            "a", "b", "c", "d", "e", "f", "A", "B", "C", "D", "E", "F"} |->
        CASE c = "0" -> 0 [] c = "1" -> 1 [] c = "2" -> 2 [] c = "3" -> 3
          [] c = "4" -> 4 [] c = "5" -> 5 [] c = "6" -> 6 [] c = "7" -> 7
          [] c = "8" -> 8 [] c = "9" -> 9
          [] c \in {"a", "A"} -> 10 [] c \in {"b", "B"} -> 11
          [] c \in {"c", "C"} -> 12 [] c \in {"d", "D"} -> 13
          [] c \in {"e", "E"} -> 14 [] c \in {"f", "F"} -> 15]

IsHexDigit(c) == c \in DOMAIN HexVal

(* sha256d::Hash::from_hex: 64 hex digits give the 32 bytes of the hash;   *)
(* the text of a double-SHA256 hash shows its bytes last to first.         *)
FromHex(s) ==
    IF Len(s) /= 64 \/ \E i \in 1..Len(s) : ~IsHexDigit(s[i])
    THEN Err("hex")
    ELSE Ok([k \in 1..32 |->
                16 * HexVal[s[2 * (33 - k) - 1]] + HexVal[s[2 * (33 - k)]]])

genesis_hex(self) ==
    CASE self = "Bitcoin"        -> Bitcoin_genesis_hex
      [] self = "BitcoinTestnet" -> BitcoinTestnet_genesis_hex
      [] self = "BitcoinRegtest" -> BitcoinRegtest_genesis_hex

(* from_hex(..).expect("static hex string, tested") *)
genesis_block(self) ==
    LET r == FromHex(genesis_hex(self))
    IN  IF r.tag = "Ok" THEN Value(r.val)
        ELSE Panic("static hex string, tested")

(* X::new(): Box::new(X {}), a new box owning a value of type X *)
new(self) == self

(* mutant: the testnet impl was copied from the mainnet one, name and all *)
clone_boxed_copied(self) ==
    CASE self = "Bitcoin"        -> new("Bitcoin")
      [] self = "BitcoinTestnet" -> new("Bitcoin")
      [] self = "BitcoinRegtest" -> new("BitcoinRegtest")

(* clone_boxed is Self::new() in each impl *)
clone_boxed(self) ==
    CASE self = "Bitcoin"        -> new("Bitcoin")
      [] self = "BitcoinTestnet" -> new("BitcoinTestnet")
      [] self = "BitcoinRegtest" -> new("BitcoinRegtest")

Accessors ==
    {"hrp", "p2pk_prefix", "p2pkh_prefix", "p2sh_prefix", "xpub_prefix",
     "xpriv_prefix", "wif_prefix", "magic", "name", "network_type",
     "chain_params", "genesis_block"}

(* dynamic dispatch of accessor a on a box of concrete type self *)
Dispatch(self, a) ==
    CASE a = "hrp"           -> Value(open_hrp(self))
      [] a = "p2pk_prefix"   -> Value(p2pk_prefix(self))
      [] a = "p2pkh_prefix"  -> Value(p2pkh_prefix(self))
      [] a = "p2sh_prefix"   -> Value(p2sh_prefix(self))
      [] a = "xpub_prefix"   -> Value(xpub_prefix(self))
      [] a = "xpriv_prefix"  -> Value(xpriv_prefix(self))
      [] a = "wif_prefix"    -> Value(wif_prefix(self))
      [] a = "magic"         -> Value(open_magic(self))
      [] a = "name"          -> Value(open_name(self))
      [] a = "network_type"  -> Value(open_network_type(self))
      [] a = "chain_params"  -> Value(open_chain_params(self))
      [] a = "genesis_block" -> genesis_block(self)

---------------------------------------------------------------------------
(* Inputs of the calls                                                     *)

HrpInputs == {hrp(n) : n \in Networks} \cup {"test", "xyz", "BC", ""}

MagicInputs ==
    {magic(n) : n \in Networks}
        \cup {U32(\hABCD, \hEF01), U32(\hF9BE, \hB4D9), U32(0, 0)}

NameInputs ==
    {name(n) : n \in Networks}
        \cup {"foobar", "bitcoin-testnet", "bitcoin-regtest", "Bitcoin", "bc"}

Predicates == [Networks -> BOOLEAN]

---------------------------------------------------------------------------
(* One caller of the closed registry: each action is one call              *)

HandleIds == 1..MaxHandles

Callers == 1..NumCallers

NoOp == [kind |-> "none", arg |-> "none"]

NoHandle == [state |-> "empty", type |-> "none", box |-> 0, from |-> 0]

Init ==
    /\ call = "none"
    /\ arg = "none"
    /\ ret = Value("none")
    /\ handles = [h \in HandleIds |-> NoHandle]
    /\ boxes = {}
    /\ obs = [handle |-> 0, accessor |-> "none", result |-> Value("none")]
    /\ all_networks = ALL_NETWORKS
    /\ pc = [c \in Callers |-> "idle"]
    /\ op = [c \in Callers |-> NoOp]
    /\ cursor = [c \in Callers |-> 0]
    /\ result = [c \in Callers |-> Value("none")]

Hrp(n) ==
    /\ call' = "hrp"
    /\ arg' = n
    /\ ret' = Value(hrp(n))

FromHrp(h) ==
    /\ call' = "from_hrp"
    /\ arg' = h
    /\ ret' = from_hrp(h)

Magic(n) ==
    /\ call' = "magic"
    /\ arg' = n
    /\ ret' = Value(magic(n))

FromMagic(m) ==
    /\ call' = "from_magic"
    /\ arg' = m
    /\ ret' = from_magic(m)

Name(n) ==
    /\ call' = "name"
    /\ arg' = n
    /\ ret' = Value(name(n))

FromName(s) ==
    /\ call' = "from_name"
    /\ arg' = s
    /\ ret' = from_name(s)

NetworkTypeOf(n) ==
    /\ call' = "network_type"
    /\ arg' = n
    /\ ret' = Value(network_type(n))

ChainParamsOf(n) ==
    /\ call' = "chain_params"
    /\ arg' = n
    /\ ret' = chain_params(n)

FindNetWithProperty(p) ==
    /\ call' = "find_net_with_property"
    /\ arg' = p
    /\ ret' = find_net_with_property(p)

Serialize(n) ==
    /\ call' = "serialize"
    /\ arg' = n
    /\ ret' = serialize(n)

Deserialize(s) ==
    /\ call' = "deserialize"
    /\ arg' = s
    /\ ret' = deserialize(s)

(* an accessor called on a value of a marker struct: Bitcoin {}.hrp(), ... *)
MarkerCall(t, a) ==
    /\ call' = "marker"
    /\ arg' = [self |-> t, accessor |-> a]
    /\ ret' = Dispatch(t, a)

ClosedCall ==
    \/ \E n \in Networks : Hrp(n)
    \/ \E h \in HrpInputs : FromHrp(h)
    \/ \E n \in Networks : Magic(n)
    \/ \E m \in MagicInputs : FromMagic(m)
    \/ \E n \in Networks : Name(n)
    \/ \E s \in NameInputs : FromName(s)
    \/ \E n \in Networks : NetworkTypeOf(n)
    \/ \E n \in Networks : ChainParamsOf(n)
    \/ \E p \in Predicates : FindNetWithProperty(p)
    \/ \E n \in Networks : Serialize(n)
    \/ \E s \in NameInputs : Deserialize(s)
    \/ \E t \in Markers, a \in Accessors : MarkerCall(t, a)

Next == ClosedCall /\ UNCHANGED <<openVars, concVars>>

Spec == Init /\ [][Next]_vars

---------------------------------------------------------------------------
(* Properties of the closed registry                                       *)

IndexOfFirst(p) ==
    CHOOSE i \in 1..Len(ALL_NETWORKS) :
        /\ p[ALL_NETWORKS[i]]
        /\ \A j \in 1..(i - 1) : ~p[ALL_NETWORKS[j]]

PredicateOfCall ==
    CASE call = "from_hrp"   -> [n \in Networks |-> hrp(n) = arg]
      [] call = "from_magic" -> [n \in Networks |-> magic(n) = arg]
      [] call = "from_name"  -> [n \in Networks |-> name(n) = arg]
      [] OTHER               -> arg

IsLookup ==
    call \in {"from_hrp", "from_magic", "from_name", "find_net_with_property"}

(* C1: for every network n of ALL_NETWORKS, from_magic(n.magic()) returns  *)
(* Ok(n).                                                                  *)
MagicRoundTrip ==
    \A n \in Range(ALL_NETWORKS) :
        (call = "from_magic" /\ arg = magic(n)) => ret = Ok(n)

(* C2: for every network n of ALL_NETWORKS, from_hrp(n.hrp()) returns      *)
(* Ok(n).                                                                  *)
HrpRoundTrip ==
    \A n \in Range(ALL_NETWORKS) :
        (call = "from_hrp" /\ arg = hrp(n)) => ret = Ok(n)

HrpRoundTripWitness ==
    /\ call = "from_hrp"
    /\ arg = hrp("LitecoinTestnet")
    /\ ret = Ok("LitecoinTestnet")

(* C3: for every network n of ALL_NETWORKS, from_name(n.name()) returns    *)
(* Ok(n).                                                                  *)
NameRoundTrip ==
    \A n \in Range(ALL_NETWORKS) :
        (call = "from_name" /\ arg = name(n)) => ret = Ok(n)

NameRoundTripWitness ==
    /\ call = "from_name"
    /\ arg = name("Vertcoin")
    /\ ret = Ok("Vertcoin")

(* C4: from_hrp, from_magic and from_name return Err(UnknownNetwork) for   *)
(* every input that is no network's hrp, magic or name respectively, and   *)
(* Ok of some network for every input that is; a lookup has no other       *)
(* outcome (no panic, no other error).                                     *)
UnknownNetworkOutcome ==
    /\ call = "from_hrp" =>
           IF \E n \in Range(ALL_NETWORKS) : hrp(n) = arg
           THEN ret \in {Ok(n) : n \in Range(ALL_NETWORKS)}
           ELSE ret = Err(UnknownNetwork)
    /\ call = "from_magic" =>
           IF \E n \in Range(ALL_NETWORKS) : magic(n) = arg
           THEN ret \in {Ok(n) : n \in Range(ALL_NETWORKS)}
           ELSE ret = Err(UnknownNetwork)
    /\ call = "from_name" =>
           IF \E n \in Range(ALL_NETWORKS) : name(n) = arg
           THEN ret \in {Ok(n) : n \in Range(ALL_NETWORKS)}
           ELSE ret = Err(UnknownNetwork)

UnknownNetworkOutcomeWitness ==
    /\ call = "from_magic"
    /\ arg = U32(\hABCD, \hEF01)
    /\ ret = Err(UnknownNetwork)

(* C5: a lookup returns the element of ALL_NETWORKS with the smallest      *)
(* index that satisfies the predicate; for the magic value shared by       *)
(* Regtest and Vertcoin, from_magic returns Regtest, the earlier one.      *)
FirstMatchWins ==
    /\ IsLookup =>
           IF \E i \in 1..Len(ALL_NETWORKS) : PredicateOfCall[ALL_NETWORKS[i]]
           THEN ret = Ok(ALL_NETWORKS[IndexOfFirst(PredicateOfCall)])
           ELSE ret = Err(UnknownNetwork)
    /\ (call = "from_magic" /\ arg = magic("Vertcoin")) => ret = Ok("Regtest")

FirstMatchWinsWitness ==
    /\ call = "from_magic"
    /\ arg = magic("Vertcoin")
    /\ magic("Vertcoin") = magic("Regtest")
    /\ ret = Ok("Regtest")

(* C6: ALL_NETWORKS holds every variant of the enum Networks exactly once  *)
(* (7 entries), and the networks a lookup can return are exactly the       *)
(* variants.                                                               *)
RegistryExhaustive ==
    /\ Len(ALL_NETWORKS) = Cardinality(Networks)
    /\ Len(ALL_NETWORKS) = 7
    /\ Range(ALL_NETWORKS) = Networks
    /\ \A i, j \in 1..Len(ALL_NETWORKS) :
           ALL_NETWORKS[i] = ALL_NETWORKS[j] => i = j
    /\ {find_net_with_property(p).val :
           p \in {q \in Predicates : find_net_with_property(q).tag = "Ok"}}
         = Networks
    /\ (IsLookup /\ ret.tag = "Ok") => ret.val \in Networks

RegistryExhaustiveWitness ==
    /\ call = "find_net_with_property"
    /\ arg = [n \in Networks |-> n = "VertcoinTestnet"]
    /\ ret = Ok("VertcoinTestnet")

NoParams == {"Litecoin", "LitecoinTestnet", "Vertcoin", "VertcoinTestnet"}

(* C7: chain_params panics for Litecoin, LitecoinTestnet, Vertcoin and     *)
(* VertcoinTestnet (it returns neither UnknownNetwork nor a bundle) and    *)
(* returns the network's own bundle, without a panic, for Bitcoin,         *)
(* Testnet and Regtest.                                                    *)
ChainParamsFatal ==
    call = "chain_params" =>
        IF arg \in NoParams
        THEN ret.tag = "Panic"
        ELSE /\ arg \in {"Bitcoin", "Testnet", "Regtest"}
             /\ ret.tag = "Value"
             /\ ret.val.network = arg

ChainParamsFatalWitness ==
    /\ call = "chain_params"
    /\ arg = "LitecoinTestnet"
    /\ ret.tag = "Panic"

(* C8: serializing a network emits exactly its name; deserializing a       *)
(* string gives the network from_name gives, or an encoding error where    *)
(* from_name gives UnknownNetwork; deserializing what a network serializes *)
(* to gives that network back.                                             *)
SerdeRoundTrip ==
    /\ call = "serialize" => ret = Emit(name(arg))
    /\ call = "deserialize" =>
           /\ from_name(arg).tag = "Ok" => ret = from_name(arg)
           /\ from_name(arg) = Err(UnknownNetwork) => ret = Err("syntax(Network)")
           /\ \A n \in Range(ALL_NETWORKS) :
                  arg = serialize(n).val => ret = Ok(n)

SerdeRoundTripWitness ==
    /\ call = "deserialize"
    /\ arg = serialize("LitecoinTestnet").val
    /\ ret = Ok("LitecoinTestnet")

(* C11: Networks::Testnet.name() is "testnet", from_name("testnet")        *)
(* returns Ok(Testnet) and from_name("bitcoin-testnet") returns            *)
(* Err(UnknownNetwork).                                                    *)
TestnetName ==
    /\ (call = "name" /\ arg = "Testnet") => ret = Value("testnet")
    /\ (call = "from_name" /\ arg = "testnet") => ret = Ok("Testnet")
    /\ (call = "from_name" /\ arg = "bitcoin-testnet") =>
           ret = Err(UnknownNetwork)

TestnetNameWitness ==
    /\ call = "from_name"
    /\ arg = "bitcoin-testnet"
    /\ ret = Err(UnknownNetwork)

WithParams == {"Bitcoin", "Testnet", "Regtest"}

(* C12: chain_params().no_pow_retargeting is true for the regtest network  *)
(* and false for bitcoin mainnet and testnet, in the closed registry       *)
(* (Networks::Regtest / Bitcoin / Testnet) and in the open one             *)
(* (BitcoinRegtest / Bitcoin / BitcoinTestnet).                            *)
RetargetingFlag ==
    /\ (call = "chain_params" /\ arg \in WithParams) =>
           /\ ret.tag = "Value"
           /\ ret.val.no_pow_retargeting = (arg = "Regtest")
    /\ (call = "marker" /\ arg.accessor = "chain_params") =>
           /\ ret.tag = "Value"
           /\ ret.val.no_pow_retargeting = (arg.self = "BitcoinRegtest")

RetargetingFlagWitness ==
    /\ call = "marker"
    /\ arg = [self |-> "BitcoinRegtest", accessor |-> "chain_params"]
    /\ ret.tag = "Value"
    /\ ret.val.no_pow_retargeting

(* the closed-registry variant of the network a marker struct stands for *)
VariantOf(t) ==
    CASE t = "Bitcoin"        -> "Bitcoin"
      [] t = "BitcoinTestnet" -> "Testnet"
      [] t = "BitcoinRegtest" -> "Regtest"

ThresholdFields ==
    {"bip16_time", "bip34_height", "bip65_height", "bip66_height",
     "rule_change_activation_threshold", "miner_confirmation_window",
     "pow_limit", "pow_target_spacing", "pow_target_timespan",
     "allow_min_difficulty_blocks", "no_pow_retargeting"}

(* C13: what hrp, magic, network_type and chain_params return for a marker *)
(* struct (Bitcoin, BitcoinTestnet, BitcoinRegtest) is what they return    *)
(* for the closed variant of the same network (Bitcoin, Testnet, Regtest), *)
(* chain_params field by field over the eleven consensus fields.           *)
GenerationsAgree ==
    call = "marker" =>
        LET n == VariantOf(arg.self)
        IN  /\ arg.accessor = "hrp" => ret = Value(hrp(n))
            /\ arg.accessor = "magic" => ret = Value(magic(n))
            /\ arg.accessor = "network_type" => ret = Value(network_type(n))
            /\ arg.accessor = "chain_params" =>
                   /\ ret.tag = "Value"
                   /\ chain_params(n).tag = "Value"
                   /\ ThresholdFields \subseteq DOMAIN ret.val
                   /\ \A f \in ThresholdFields :
                          ret.val[f] = chain_params(n).val[f]

GenerationsAgreeWitness ==
    /\ call = "marker"
    /\ arg = [self |-> "BitcoinTestnet", accessor |-> "chain_params"]
    /\ ret = Value(BitcoinTestnet_chain_params)
    /\ ret.val.bip34_height = chain_params("Testnet").val.bip34_height


---------------------------------------------------------------------------
(* Owners of open-registry handles.  Handle ids are given out in order;    *)
(* the box made for handle d has identity d.                               *)

FreshHandle(d) ==
    /\ d \in HandleIds
    /\ handles[d].state = "empty"
    /\ \A e \in 1..(d - 1) : handles[e].state /= "empty"

Live(h) == handles[h].state = "live"

(* let d = X::new() *)
New(t, d) ==
    /\ FreshHandle(d)
    /\ handles' = [handles EXCEPT
                      ![d] = [state |-> "live", type |-> new(t),
                              box |-> d, from |-> 0]]
    /\ boxes' = boxes \cup {d}
    /\ UNCHANGED obs

(* let d = h.clone_boxed() *)
CloneBoxed(h, d) ==
    /\ Live(h)
    /\ handles[h].box \in boxes
    /\ FreshHandle(d)
    /\ handles' = [handles EXCEPT
                      ![d] = [state |-> "live",
                              type |-> clone_boxed(handles[h].type),
                              box |-> d, from |-> h]]
    /\ boxes' = boxes \cup {d}
    /\ UNCHANGED obs

(* h goes out of scope: its box is dropped *)
Drop(h) ==
    /\ Live(h)
    /\ handles' = [handles EXCEPT ![h].state = "dropped"]
    /\ boxes' = boxes \ {handles[h].box}
    /\ UNCHANGED obs

(* h.a() for an accessor a *)
CallAccessor(h, a) ==
    /\ Live(h)
    /\ handles[h].box \in boxes
    /\ obs' = [handle |-> h, accessor |-> a,
               result |-> Dispatch(handles[h].type, a)]
    /\ UNCHANGED <<handles, boxes>>

OpenStep ==
    \/ \E t \in Markers, d \in HandleIds : New(t, d)
    \/ \E h, d \in HandleIds : CloneBoxed(h, d)
    \/ \E h \in HandleIds : Drop(h)
    \/ \E h \in HandleIds, a \in Accessors : CallAccessor(h, a)

NextOpen == OpenStep /\ UNCHANGED <<closedVars, concVars>>

SpecOpen == Init /\ [][NextOpen]_vars

(* C9: a handle made by clone_boxed is a new box of the same concrete      *)
(* network as the handle it was made from, every accessor called on it     *)
(* returns what the accessor returns for the original, and a live handle   *)
(* keeps its box whichever other handles were dropped.                     *)
CloneSameNetwork ==
    /\ \A d \in HandleIds :
           handles[d].from /= 0 =>
               /\ handles[d].type = handles[handles[d].from].type
               /\ handles[d].box /= handles[handles[d].from].box
    /\ \A h \in HandleIds : Live(h) => handles[h].box \in boxes
    /\ (obs.handle /= 0 /\ handles[obs.handle].from /= 0) =>
           obs.result =
               Dispatch(handles[handles[obs.handle].from].type, obs.accessor)

CloneSameNetworkWitness ==
    /\ handles[1].state = "dropped"
    /\ handles[1].type = "BitcoinTestnet"
    /\ handles[2].from = 1
    /\ Live(2)
    /\ obs.handle = 2
    /\ obs.accessor = "genesis_block"
    /\ obs.result.tag = "Value"

---------------------------------------------------------------------------
(* Threads calling the closed registry concurrently.  A lookup is          *)
(* ALL_NETWORKS.iter().find(predicate): the iterator is a temporary of the *)
(* call, and find examines one element of the slice per step.              *)

ConcHrpInputs == {"tb", "tvtc", "xyz"}

ConcMagicInputs == {magic("Vertcoin"), U32(\hABCD, \hEF01)}

ConcNameInputs == {"testnet", "foobar"}

ConcNetworks == {"Bitcoin", "Regtest", "Vertcoin"}

LookupKinds == {"from_hrp", "from_magic", "from_name"}

AccessorKinds == {"hrp", "magic", "name", "network_type", "chain_params"}

LookupInputs(kind) ==
    CASE kind = "from_hrp"   -> ConcHrpInputs
      [] kind = "from_magic" -> ConcMagicInputs
      [] kind = "from_name"  -> ConcNameInputs

(* the closure a lookup hands to find_net_with_property, applied to n *)
Closure(o, n) ==
    CASE o.kind = "from_hrp"   -> hrp(n) = o.arg
      [] o.kind = "from_magic" -> magic(n) = o.arg
      [] o.kind = "from_name"  -> name(n) = o.arg

(* mutant: one iterator, kept in a static, serves every call *)
IterOf_static(c) == 1

(* the iterator a call of thread c scans with: a local of that call *)
IterOf(c) == c

(* thread c enters from_hrp / from_magic / from_name: slice.iter() *)
BeginLookup(c, kind, input) ==
    /\ pc[c] = "idle"
    /\ pc' = [pc EXCEPT ![c] = "find"]
    /\ op' = [op EXCEPT ![c] = [kind |-> kind, arg |-> input]]
    /\ cursor' = [cursor EXCEPT ![IterOf(c)] = 1]
    /\ UNCHANGED <<all_networks, result>>

(* one step of Iterator::find, then the match of find_net_with_property *)
FindStep(c) ==
    /\ pc[c] = "find"
    /\ LET i == cursor[IterOf(c)]
       IN  IF i \notin DOMAIN all_networks
           THEN /\ result' = [result EXCEPT ![c] = Err(UnknownNetwork)]
                /\ pc' = [pc EXCEPT ![c] = "done"]
                /\ UNCHANGED cursor
           ELSE /\ cursor' = [cursor EXCEPT ![IterOf(c)] = i + 1]
                /\ IF Closure(op[c], all_networks[i])
                   THEN /\ result' = [result EXCEPT
                                         ![c] = Ok(all_networks[i])]
                        /\ pc' = [pc EXCEPT ![c] = "done"]
                   ELSE UNCHANGED <<result, pc>>
    /\ UNCHANGED <<all_networks, op>>

(* thread c calls a forward accessor on network n: one match on *self *)
Accessor(c, kind, n) ==
    /\ pc[c] = "idle"
    /\ pc' = [pc EXCEPT ![c] = "done"]
    /\ op' = [op EXCEPT ![c] = [kind |-> kind, arg |-> n]]
    /\ result' = [result EXCEPT ![c] =
           CASE kind = "hrp"          -> Value(hrp(n))
             [] kind = "magic"        -> Value(magic(n))
             [] kind = "name"         -> Value(name(n))
             [] kind = "network_type" -> Value(network_type(n))
             [] kind = "chain_params" -> chain_params(n)]
    /\ UNCHANGED <<all_networks, cursor>>

(* the call of thread c has returned (or unwound) and c is free again *)
Return(c) ==
    /\ pc[c] = "done"
    /\ pc' = [pc EXCEPT ![c] = "idle"]
    /\ op' = [op EXCEPT ![c] = NoOp]
    /\ result' = [result EXCEPT ![c] = Value("none")]
    /\ cursor' = [cursor EXCEPT ![IterOf(c)] = 0]
    /\ UNCHANGED all_networks

ConcStep ==
    \/ \E c \in Callers, kind \in LookupKinds :
           \E input \in LookupInputs(kind) : BeginLookup(c, kind, input)
    \/ \E c \in Callers : FindStep(c)
    \/ \E c \in Callers, kind \in AccessorKinds, n \in ConcNetworks :
           Accessor(c, kind, n)
    \/ \E c \in Callers : Return(c)

NextConc == ConcStep /\ UNCHANGED <<closedVars, openVars>>

SpecConc == Init /\ [][NextConc]_vars

(* what the call o returns when it is the only call ever made *)
InIsolation(o) ==
    CASE o.kind = "from_hrp"     -> from_hrp(o.arg)
      [] o.kind = "from_magic"   -> from_magic(o.arg)
      [] o.kind = "from_name"    -> from_name(o.arg)
      [] o.kind = "hrp"          -> Value(hrp(o.arg))
      [] o.kind = "magic"        -> Value(magic(o.arg))
      [] o.kind = "name"         -> Value(name(o.arg))
      [] o.kind = "network_type" -> Value(network_type(o.arg))
      [] o.kind = "chain_params" -> chain_params(o.arg)

(* C10: whatever calls other threads have made or are in the middle of,    *)
(* ALL_NETWORKS in memory is what it was at the start and every finished   *)
(* call has returned what the same call returns as the first and only      *)
(* call.                                                                   *)
CallsDoNotInterfere ==
    /\ all_networks = ALL_NETWORKS
    /\ \A c \in Callers : pc[c] = "done" => result[c] = InIsolation(op[c])

CallsDoNotInterfereWitness ==
    /\ pc[1] = "done"
    /\ op[1] = [kind |-> "from_hrp", arg |-> "tvtc"]
    /\ result[1] = Ok("VertcoinTestnet")
    /\ pc[2] = "find"
    /\ op[2].kind = "from_magic"
    /\ cursor[2] = 3

====
